---------------------------- MODULE Spec2Model ----------------------------
(***************************************************************************)
(* Model of the Book Assistant service (osama96gh/Bakaloria-Agent):        *)
(*   - the Page Resolver  get_book_page        (src/teacher_agent/tools.py) *)
(*   - the Query Facade   process_agent_query  (src/teacher_agent/service.py)*)
(*   - the HTTP surface   POST /query          (src/api.py)                 *)
(* Python strings are TLA+ strings; the string functions the code uses     *)
(* (f-strings, split, replace, endswith, int, sorted, join) are operators  *)
(* that compute what the Python functions compute.                         *)
(***************************************************************************)
EXTENDS Integers, Sequences, FiniteSets, TLC

(***************************************************************************)
(* Bounds of the model.                                                    *)
(***************************************************************************)
\* page_number inputs range over -1 .. MaxPage
MaxPage == 3

\* facade calls made one after another in one process
MaxCalls == 2

\* events the agent runtime yields in one run
MaxEvents == 2

(***************************************************************************)
(* Python string functions.                                                *)
(***************************************************************************)
\* the characters of the modelled keys, in code point (ASCII) order
Alphabet == "'+-./0123456789_abcdefghijklmnopqrstuvwxyz"

Digits == "0123456789"

\* s[i], 1-based
CharAt(s, i) == SubSeq(s, i, i)

RECURSIVE IndexIn(_, _, _)
\* position of the one-character string c in s at or after i, 0 when absent
IndexIn(s, c, i) ==
    IF i > Len(s) THEN 0
    ELSE IF CharAt(s, i) = c THEN i
    ELSE IndexIn(s, c, i + 1)

IsDigit(c) == IndexIn(Digits, c, 1) > 0

DigitVal(c) == IndexIn(Digits, c, 1) - 1

\* str.startswith
StartsWith(s, p) == Len(s) >= Len(p) /\ SubSeq(s, 1, Len(p)) = p

\* str.endswith
EndsWith(s, p) == Len(s) >= Len(p) /\ SubSeq(s, Len(s) - Len(p) + 1, Len(s)) = p

RECURSIVE Find(_, _, _)
\* str.find, 1-based: first position >= i where sub occurs in s, 0 when none
Find(s, sub, i) ==
    IF i + Len(sub) - 1 > Len(s) THEN 0
    ELSE IF SubSeq(s, i, i + Len(sub) - 1) = sub THEN i
    ELSE Find(s, sub, i + 1)

\* the Python test  sub in s
Contains(s, sub) == Find(s, sub, 1) > 0

RECURSIVE Split(_, _)
\* str.split(sep): the pieces of s between the occurrences of sep
Split(s, sep) ==
    LET i == Find(s, sep, 1)
    IN  IF i = 0 THEN <<s>>
        ELSE <<SubSeq(s, 1, i - 1)>> \o Split(SubSeq(s, i + Len(sep), Len(s)), sep)

RECURSIVE Replace(_, _, _)
\* str.replace(old, new): every occurrence, left to right
Replace(s, old, new) ==
    LET i == Find(s, old, 1)
    IN  IF i = 0 THEN s
        ELSE SubSeq(s, 1, i - 1) \o new
                 \o Replace(SubSeq(s, i + Len(old), Len(s)), old, new)

RECURSIVE NatToStr(_)
\* decimal digits of a natural number
NatToStr(n) ==
    IF n < 10 THEN CharAt(Digits, n + 1)
    ELSE NatToStr(n \div 10) \o CharAt(Digits, (n % 10) + 1)

\* str(n) / f"{n}" for an int
IntToStr(n) == IF n < 0 THEN "-" \o NatToStr(0 - n) ELSE NatToStr(n)

RECURSIVE DigitsOk(_, _)
\* the body of an int literal: digits, single underscores only between digits
DigitsOk(s, i) ==
    IF i > Len(s) THEN TRUE
    ELSE IF IsDigit(CharAt(s, i)) THEN DigitsOk(s, i + 1)
    ELSE /\ CharAt(s, i) = "_"
         /\ i > 1 /\ i < Len(s)
         /\ IsDigit(CharAt(s, i - 1)) /\ IsDigit(CharAt(s, i + 1))
         /\ DigitsOk(s, i + 1)

RECURSIVE DigitsVal(_, _, _)
DigitsVal(s, i, acc) ==
    IF i > Len(s) THEN acc
    ELSE IF CharAt(s, i) = "_" THEN DigitsVal(s, i + 1, acc)
    ELSE DigitsVal(s, i + 1, 10 * acc + DigitVal(CharAt(s, i)))

\* int(s): [ok |-> FALSE] is ValueError.  Optional sign, leading zeros and
\* underscores between digits are accepted, as in Python.  (Surrounding
\* whitespace, which int() strips, is not in the alphabet of the keys.)
ParseInt(s) ==
    LET signed == Len(s) > 0 /\ CharAt(s, 1) \in {"+", "-"}
        body   == IF signed THEN SubSeq(s, 2, Len(s)) ELSE s
    IN  IF Len(body) > 0 /\ DigitsOk(body, 1)
        THEN [ok |-> TRUE,
              val |-> IF signed /\ CharAt(s, 1) = "-"
                      THEN 0 - DigitsVal(body, 1, 0)
                      ELSE DigitsVal(body, 1, 0)]
        ELSE [ok |-> FALSE, val |-> 0]

RECURSIVE StrLess(_, _)
\* s < t for Python strings (lexicographic by code point)
StrLess(s, t) ==
    IF Len(t) = 0 THEN FALSE
    ELSE IF Len(s) = 0 THEN TRUE
    ELSE LET a == IndexIn(Alphabet, CharAt(s, 1), 1)
             b == IndexIn(Alphabet, CharAt(t, 1), 1)
         IN  IF a # b THEN a < b
             ELSE StrLess(SubSeq(s, 2, Len(s)), SubSeq(t, 2, Len(t)))

RECURSIVE SortedStrs(_)
\* sorted(S) for a set of strings
SortedStrs(S) ==
    IF S = {} THEN <<>>
    ELSE LET m == CHOOSE x \in S : \A y \in S : y = x \/ StrLess(x, y)
         IN  <<m>> \o SortedStrs(S \ {m})

RECURSIVE Join(_, _)
\* sep.join(seq)
Join(sep, seq) ==
    IF Len(seq) = 0 THEN ""
    ELSE IF Len(seq) = 1 THEN seq[1]
    ELSE seq[1] \o sep \o Join(sep, Tail(seq))

\* min() and max() of a non-empty list
Min(S) == CHOOSE x \in S : \A y \in S : x <= y

Max(S) == CHOOSE x \in S : \A y \in S : x >= y

Range(seq) == {seq[i] : i \in 1..Len(seq)}

(***************************************************************************)
(* The object store and the inputs of get_book_page.                       *)
(***************************************************************************)
\* tools.py:46
BUCKET_NAME == "bakaloria-ai-assistance-books"

\* tools.py:47 (the local-file branch, lines 113-129, is never taken)
USE_GCS == TRUE

\* object names the bucket may hold: page objects of two books with a gap
\* and a two-digit page, a zero-padded and a non-numeric page name, an
\* object that is no page, a book whose slug contains "page_", and an
\* object outside every prefix
AllKeys ==
    { "a/page_1.png", "a/page_3.png", "a/page_10.png", "a/page_02.png",
      "a/page_x.png", "a/cover.png", "b/page_2.png", "page_x/page_1.png",
      "readme.txt" }

\* book_name inputs ("c" is never stored)
Slugs == {"a", "b", "c", "page_x"}

\* page_number inputs
PageNumbers == (0 - 1)..MaxPage

\* the bytes stored under an object name (opaque, distinct per object)
BytesOf(k) == "png-bytes-of:" \o k

\* exceptions the storage client may raise, by their str()
GcsErrors == {"GcsForbidden"}

\* the exception requests.get may raise, by its str()
HttpErrors == {"ConnectionError"}

\* Python's None where a str may stand
None == "None"

\* Python's None where a dict or an object may stand
Null == [none |-> TRUE]

VARIABLES
    bucket,          \* the object store: object name -> bytes
    book_name,       \* argument of get_book_page
    page_number,     \* argument of get_book_page
    gpc,             \* position in get_book_page
    available_pages, \* local of get_book_page
    gcs_error,       \* exception caught at tools.py:105, None before
    page_result,     \* the dict get_book_page returned, Null before
    io_log,          \* ghost: external calls issued so far, in order (a
                     \* store call by its name, an HTTP GET by its URL)
    http_answer      \* ghost: what requests.get did, Null before

pageVars ==
    <<bucket, book_name, page_number, gpc, available_pages, gcs_error,
      page_result, io_log, http_answer>>

VARIABLES
    ncalls,          \* facade calls started so far in this process
    next_uuid,       \* uuid4 values drawn so far (every draw is fresh)
    history,         \* ghost: one summary per finished call, in order
    pc,              \* position in process_agent_query
    user_id,         \* argument of process_agent_query
    session_id,      \* argument of process_agent_query (None when omitted)
    session_service, \* the InMemorySessionService built at service.py:74
    session,         \* local `session` (a copy of the stored session)
    response_parts,  \* local `response_parts`
    seen,            \* ghost: the events the runtime yielded to this call
    lookup,          \* ghost: "hit" or "miss" of get_session, None if not called
    created,         \* ghost: id of the session this call created, or None
    raised,          \* ghost: str(e) of the exception caught at service.py:150
    result,          \* the dict process_agent_query returned, Null before
    http_response    \* what POST /query answered, Null before

queryVars ==
    <<ncalls, next_uuid, history, pc, user_id, session_id, session_service,
      session, response_parts, seen, lookup, created, raised, result,
      http_response>>

VARIABLES
    endpoint,        \* the route of api.py serving the request, None before
    queries,         \* POST /query/batch: the QueryRequests of the body
    entries,         \* POST /query/batch: local `results`
    frames           \* POST /query/stream: the frames generate() yielded

httpVars == <<endpoint, queries, entries, frames>>

\* overlapping calls of process_agent_query
VARIABLES
    tasks            \* per call: its position, arguments, locals and ghosts

vars == <<pageVars, queryVars, httpVars, tasks>>

(***************************************************************************)
(* get_book_page (tools.py:25-151).                                        *)
(***************************************************************************)
\* BlobPath with the page number padded to two digits
BlobPathPadded(book, n) ==
    book \o "/" \o ("page_" \o (IF 0 <= n /\ n < 10 THEN "0" ELSE "")
                              \o IntToStr(n) \o ".png")

\* tools.py:50-51
BlobPath(book, n) == book \o "/" \o ("page_" \o IntToStr(n) \o ".png")

\* bucket.list_blobs(prefix=...): the names with the prefix, in name order
ListBlobs(prefix) ==
    SortedStrs({k \in DOMAIN bucket : StartsWith(k, prefix)})

\* tools.py:68-73, for one listed name: the page number appended, or <<>>
PageNumOf(name) ==
    IF ~EndsWith(name, ".png") THEN <<>>
    ELSE LET pieces == Split(name, "page_")
         IN  IF Len(pieces) < 2 THEN <<>>                      \* IndexError
             ELSE LET r == ParseInt(Replace(pieces[2], ".png", ""))
                  IN  IF r.ok THEN <<r.val>> ELSE <<>>         \* ValueError

RECURSIVE AvailablePages(_)
\* tools.py:66-73
AvailablePages(blobs) ==
    IF Len(blobs) = 0 THEN <<>>
    ELSE PageNumOf(Head(blobs)) \o AvailablePages(Tail(blobs))

\* AvailableBooks without the test of line 82
AvailableBooksUnfiltered(names) ==
    SortedStrs({Split(k, "/")[1] : k \in names})

\* tools.py:80-84
AvailableBooks(names) ==
    SortedStrs({Split(k, "/")[1] : k \in {n \in names : Contains(n, "/")}})

\* tools.py:85-90
BookNotFoundResult(book, n, books) ==
    [status |-> "error",
     message |-> "Book '" \o book \o "' not found. Available books: "
                     \o Join(", ", books),
     book_name |-> book,
     page_number |-> n]

\* tools.py:92-93 (after the sort, min and max are those of the list)
PageRange(pages) ==
    IF Len(pages) > 0
    THEN IntToStr(Min(Range(pages))) \o "-" \o IntToStr(Max(Range(pages)))
    ELSE "none"

\* PageNotFoundResult worded from the book's side
PageNotFoundResultByBook(book, n, pages) ==
    [status |-> "error",
     message |-> "Book '" \o book \o "' has no page " \o IntToStr(n)
                     \o ". Available pages: " \o PageRange(pages),
     book_name |-> book,
     page_number |-> n]

\* tools.py:95-100
PageNotFoundResult(book, n, pages) ==
    [status |-> "error",
     message |-> "Page " \o IntToStr(n) \o " not found in book '" \o book
                     \o "'. Available pages: " \o PageRange(pages),
     book_name |-> book,
     page_number |-> n]

\* tools.py:131-135, types.Part.from_bytes
ImagePart(bytes) == [data |-> bytes, mime_type |-> "image/png"]

\* tools.py:137-144
PageSuccessResult(book, n, bytes) ==
    [status |-> "success",
     message |-> "Successfully retrieved page " \o IntToStr(n)
                     \o " from book '" \o book \o "' ("
                     \o (IF USE_GCS THEN "GCS" ELSE "local") \o ")",
     image |-> ImagePart(bytes),
     book_name |-> book,
     page_number |-> n]

\* StorageErrorResult without the requested page
StorageErrorResultBare(book, n, e) ==
    [status |-> "error",
     message |-> "Error reading image file: " \o e,
     book_name |-> book]

\* tools.py:145-151, e is str(e)
StorageErrorResult(book, n, e) ==
    [status |-> "error",
     message |-> "Error reading image file: " \o e,
     book_name |-> book,
     page_number |-> n]

\* tools.py:110, the message of the exception raised on a non-200 answer
FallbackFailure(e) == "Failed to fetch from GCS: " \o e

\* tools.py:107
PublicUrl(path) ==
    "https://storage.googleapis.com/" \o BUCKET_NAME \o "/" \o path

\* answers of the object store's public endpoint to GET PublicUrl(path):
\* the bytes of an existing object when it is publicly readable, else a
\* refusal
HttpAnswers(path) ==
    IF path \in DOMAIN bucket
    THEN {[status_code |-> 200, content |-> bucket[path]],
          [status_code |-> 403, content |-> "AccessDenied"]}
    ELSE {[status_code |-> 404, content |-> "NoSuchKey"],
          [status_code |-> 403, content |-> "AccessDenied"]}

\* a primary-store call raised: control passes to tools.py:105
GcsRaise(call) ==
    \E e \in GcsErrors :
        /\ UNCHANGED <<queryVars, httpVars, tasks>>
        /\ gcs_error' = e
        /\ gpc' = "fallback"
        /\ io_log' = Append(io_log, call)
        /\ UNCHANGED <<bucket, book_name, page_number, available_pages,
                       page_result, http_answer>>

\* get_book_page returns r
Return(r, call) ==
    /\ UNCHANGED <<queryVars, httpVars, tasks>>
    /\ page_result' = r
    /\ gpc' = "done"
    /\ io_log' = Append(io_log, call)
    /\ UNCHANGED <<bucket, book_name, page_number, gcs_error>>

\* ReturnPrimary asking the public URL before it returns
ReturnProbing(r, call) ==
    /\ UNCHANGED <<queryVars, httpVars, tasks>>
    /\ page_result' = r
    /\ gpc' = "done"
    /\ io_log' = io_log \o <<call, PublicUrl(BlobPath(book_name, page_number))>>
    /\ http_answer' \in HttpAnswers(BlobPath(book_name, page_number))
    /\ UNCHANGED <<bucket, book_name, page_number, gcs_error>>

\* get_book_page returns r without having asked the public URL
ReturnPrimary(r, call) == Return(r, call) /\ UNCHANGED http_answer

\* tools.py:58-60
StorageClient ==
    /\ gpc = "client"
    /\ \/ /\ gpc' = "exists"
          /\ io_log' = Append(io_log, "client")
          /\ UNCHANGED <<bucket, book_name, page_number, available_pages,
                         gcs_error, page_result, http_answer, queryVars,
                         httpVars, tasks>>
       \/ GcsRaise("client")

\* tools.py:63
BlobExists ==
    /\ gpc = "exists"
    /\ \/ /\ gpc' = IF BlobPath(book_name, page_number) \in DOMAIN bucket
                    THEN "download" ELSE "list_pages"
          /\ io_log' = Append(io_log, "exists")
          /\ UNCHANGED <<bucket, book_name, page_number, available_pages,
                         gcs_error, page_result, http_answer, queryVars,
                         httpVars, tasks>>
       \/ GcsRaise("exists")

\* tools.py:65-75 and, when pages were found, 92-100
ListPages ==
    /\ gpc = "list_pages"
    /\ \/ LET pages == AvailablePages(ListBlobs(book_name \o "/page_"))
          IN  /\ available_pages' = pages
              /\ IF Len(pages) = 0
                 THEN /\ gpc' = "list_book"
                      /\ io_log' = Append(io_log, "list_pages")
                      /\ UNCHANGED <<bucket, book_name, page_number,
                                     gcs_error, page_result, http_answer, queryVars,
                         httpVars, tasks>>
                 ELSE ReturnPrimary(PageNotFoundResult(book_name, page_number,
                                                       pages), "list_pages")
       \/ GcsRaise("list_pages")

\* tools.py:77-78 and, when the book has objects, 92-100
ListBook ==
    /\ gpc = "list_book"
    /\ \/ IF Len(ListBlobs(book_name \o "/")) = 0
          THEN /\ gpc' = "list_all"
               /\ io_log' = Append(io_log, "list_book")
               /\ UNCHANGED <<bucket, book_name, page_number, available_pages,
                              gcs_error, page_result, http_answer, queryVars,
                         httpVars, tasks>>
          ELSE /\ ReturnPrimary(PageNotFoundResult(book_name, page_number,
                                   available_pages), "list_book")
               /\ UNCHANGED available_pages
       \/ GcsRaise("list_book")

\* tools.py:80-90
ListAll ==
    /\ gpc = "list_all"
    /\ \/ /\ ReturnPrimary(BookNotFoundResult(book_name, page_number,
                              AvailableBooks(DOMAIN bucket)), "list_all")
          /\ UNCHANGED available_pages
       \/ GcsRaise("list_all")

\* tools.py:103 and 131-144
Download ==
    /\ gpc = "download"
    /\ \/ /\ ReturnPrimary(PageSuccessResult(book_name, page_number,
                              bucket[BlobPath(book_name, page_number)]),
                           "download")
          /\ UNCHANGED available_pages
       \/ GcsRaise("download")

\* tools.py:105-111, then 131-144 or 145-151
Fallback ==
    /\ gpc = "fallback"
    /\ UNCHANGED available_pages
    /\ \/ \E e \in HttpErrors :
              /\ http_answer' = [exception |-> e]
              /\ Return(StorageErrorResult(book_name, page_number, e),
                        PublicUrl(BlobPath(book_name, page_number)))
       \/ \E resp \in HttpAnswers(BlobPath(book_name, page_number)) :
              /\ http_answer' = resp
              /\ IF resp.status_code # 200
                 THEN Return(StorageErrorResult(book_name, page_number,
                                 FallbackFailure(gcs_error)),
                             PublicUrl(BlobPath(book_name, page_number)))
                 ELSE Return(PageSuccessResult(book_name, page_number,
                                 resp.content),
                             PublicUrl(BlobPath(book_name, page_number)))

(***************************************************************************)
(* process_agent_query (service.py:28-156) behind POST /query              *)
(* (api.py:133-167).                                                       *)
(***************************************************************************)
\* service.py:32, the default app_name (api.py never passes another)
APP_NAME == "book_assistant"

\* user_id values of the requests (api.py:43 gives the default)
Users == {"default_user", "user_123"}

\* a session id no store ever issued
StaleId == "expired-id"

\* str(uuid4()) of the n-th draw: InMemorySessionService.create_session
\* names a session so when no id is passed
Uuid(n) == "uuid-" \o NatToStr(n)

\* exceptions of the session store and of the agent runtime, by their str()
SessionErrors == {"SessionFailure"}

RuntimeErrors == {"RuntimeFailure"}

\* text of a part: "" stands for a part without text (text None or empty)
\* events of the runtime: the texts of event.content.parts (<<>> when the
\* event has no content or no parts) and event.is_final_response()
EventSet ==
    [parts : {<<>>, <<"ab">>, <<"", "c">>, <<"c", "ab">>}, final : BOOLEAN]

\* Python truthiness of an Optional[str] (service.py:77)
Truthy(v) == v # None /\ v # ""

\* InMemorySessionService.get_session (service.py:79-83): the stored
\* session of that app, user and id, or None (Null)
GetSessionIn(store, app, user, sid) ==
    IF \E s \in store : s.app_name = app /\ s.user_id = user /\ s.id = sid
    THEN CHOOSE s \in store : s.app_name = app /\ s.user_id = user /\ s.id = sid
    ELSE Null

\* InMemorySessionService.create_session (service.py:86-89, 92-95): a new
\* session, with no events, under a fresh uuid
NewSession(app, user, n) ==
    [id |-> Uuid(n), app_name |-> app, user_id |-> user, events |-> <<>>]

RECURSIVE TextsOf(_)
\* service.py:131-134, for the parts of one event: the texts appended
TextsOf(parts) ==
    IF Len(parts) = 0 THEN <<>>
    ELSE (IF Head(parts) # "" THEN <<Head(parts)>> ELSE <<>>)
             \o TextsOf(Tail(parts))

\* AppendParts with the texts put in front
AppendPartsFront(acc, event) == TextsOf(event.parts) \o acc

\* service.py:131-134: response_parts after one event
AppendParts(acc, event) == acc \o TextsOf(event.parts)

\* FacadeSuccess echoing the caller's session_id when one was given
FacadeSuccessEcho(parts, sess, in_sid) ==
    [response |-> Join("", parts),
     session_id |-> IF Truthy(in_sid) THEN in_sid ELSE sess.id,
     status |-> "success",
     error |-> None]

\* service.py:141-148
FacadeSuccess(parts, sess, in_sid) ==
    [response |-> Join("", parts),
     session_id |-> sess.id,
     status |-> "success",
     error |-> None]

\* FacadeError reporting the session in use and the text collected
FacadeErrorPartial(parts, sess, in_sid, e) ==
    [response |-> Join("", parts),
     session_id |-> IF sess = Null THEN in_sid ELSE sess.id,
     status |-> "error",
     error |-> e]

\* service.py:150-156, e is str(e)
FacadeError(parts, sess, in_sid, e) ==
    [response |-> "",
     session_id |-> in_sid,
     status |-> "error",
     error |-> e]

\* pydantic's check of QueryResponse (api.py:55-60): response, session_id
\* and status are str, error is Optional[str]
ValidQueryResponse(r) ==
    r.response # None /\ r.session_id # None /\ r.status # None

\* api.py:158-167: the answer of POST /query to the facade's result
QueryAnswer(r) ==
    IF ValidQueryResponse(r)
    THEN [code |-> 200,
          body |-> [response |-> r.response, session_id |-> r.session_id,
                    status |-> r.status, error |-> r.error]]
    ELSE [code |-> 500, detail |-> "ValidationError"]

\* ask_agent returning the response even when the facade failed
AskAgentBare(r) == r.response

\* ask_agent (service.py:182-187): the text it returns for the facade's
\* result
AskAgent(r) ==
    IF r.status = "success" THEN r.response ELSE "Error: " \o r.error

\* api.py:180-187: the answer of POST /ask; SimpleQueryResponse has the one
\* field `response`
AskAnswer(r) == [code |-> 200, body |-> [response |-> AskAgent(r)]]

\* api.py:213-225: the entry POST /query/batch appends for one query; when
\* QueryResponse rejects the facade's result the except branch builds the
\* entry from the request's session_id (`session_id or ""`)
BatchEntry(r, in_sid) ==
    IF ValidQueryResponse(r)
    THEN [response |-> r.response, session_id |-> r.session_id,
          status |-> r.status, error |-> r.error]
    ELSE [response |-> "",
          session_id |-> IF Truthy(in_sid) THEN in_sid ELSE "",
          status |-> "error",
          error |-> "ValidationError"]

\* json.dumps of an Optional[str]
JsonValue(v) == IF v = None THEN "null" ELSE "\"" \o v \o "\""

\* json.dumps(result) (api.py:255) of the facade's dict, in the order of
\* its keys (service.py:143-148, 151-156)
JsonDumps(r) ==
    "{\"response\": " \o JsonValue(r.response)
        \o ", \"session_id\": " \o JsonValue(r.session_id)
        \o ", \"status\": " \o JsonValue(r.status)
        \o ", \"error\": " \o JsonValue(r.error) \o "}"

\* ResultFrame carrying the response text alone
ResultFrameText(r) == "data: " \o r.response \o "\n\n"

\* api.py:255: the first frame of POST /query/stream
ResultFrame(r) == "data: " \o JsonDumps(r) \o "\n\n"

\* api.py:256: the second frame of POST /query/stream
DoneFrame == "data: [DONE]\n\n"

\* where the route goes on when process_agent_query has returned:
\* api.py:158 and 187 answer, api.py:213 appends, api.py:255 yields
AfterFacade(ep) ==
    IF ep = "/query/batch" THEN "append"
    ELSE IF ep = "/query/stream" THEN "yield_result"
    ELSE "done"

\* the answer the route gives as soon as process_agent_query has returned
\* (Null while POST /query/batch and POST /query/stream go on)
HandlerAnswer(ep, r) ==
    IF ep = "/query" THEN QueryAnswer(r)
    ELSE IF ep = "/ask" THEN AskAnswer(r)
    ELSE Null

\* ghost: what a finished call did
Summary(r, e) ==
    [user_id |-> user_id,
     in_sid |-> session_id,
     status |-> r.status,
     out_sid |-> r.session_id,
     session |-> IF session = Null THEN None ELSE session.id,
     context |-> IF session = Null THEN <<>> ELSE session.events,
     raised |-> e]

\* Finish leaving the call where it was
FinishOpen(r, e) ==
    /\ pc' = pc
    /\ raised' = e
    /\ result' = r
    /\ http_response' = HandlerAnswer(endpoint, r)
    /\ history' = Append(history, Summary(r, e))

\* process_agent_query returns r and the route goes on
Finish(r, e) ==
    /\ pc' = AfterFacade(endpoint)
    /\ raised' = e
    /\ result' = r
    /\ http_response' = HandlerAnswer(endpoint, r)
    /\ history' = Append(history, Summary(r, e))

\* an awaited call raised: control passes to service.py:150
Raise(errors) ==
    \E e \in errors :
        /\ Finish(FacadeError(response_parts, session, session_id, e), e)
        /\ UNCHANGED <<ncalls, next_uuid, user_id, session_id, session_service,
                       session, response_parts, seen, lookup, created,
                       pageVars, httpVars, tasks>>

\* service.py:72-77: process_agent_query is called with user_id u and
\* session_id sid, builds its session store and tests session_id
StartCall(u, sid) ==
    /\ ncalls' = ncalls + 1
    /\ user_id' = u
    /\ session_id' = sid
    /\ session_service' = {}
    /\ session' = Null
    /\ response_parts' = <<>>
    /\ seen' = <<>>
    /\ lookup' = None
    /\ created' = None
    /\ raised' = None
    /\ result' = Null
    /\ http_response' = Null
    /\ pc' = IF Truthy(sid) THEN "get_session" ELSE "create_session"
    /\ UNCHANGED <<next_uuid, history, pageVars, tasks>>

\* api.py:147-155: a request arrives at POST /query and the facade is
\* called
Request ==
    /\ pc \in {"idle", "done"}
    /\ ncalls < MaxCalls
    /\ \E u \in Users :
       \E sid \in {None, "", StaleId}
                      \cup {history[i].out_sid : i \in 1..Len(history)} :
           StartCall(u, sid)
    /\ endpoint' = "/query"
    /\ UNCHANGED <<queries, entries, frames>>

\* service.py:79-84
GetSession ==
    /\ pc = "get_session"
    /\ \/ LET s == GetSessionIn(session_service, APP_NAME, user_id, session_id)
          IN  /\ session' = s
              /\ lookup' = IF s = Null THEN "miss" ELSE "hit"
              /\ pc' = IF s = Null THEN "create_session" ELSE "run"
              /\ UNCHANGED <<ncalls, next_uuid, history, user_id, session_id,
                             session_service, response_parts, seen, created,
                             raised, result, http_response, pageVars, httpVars, tasks>>
       \/ Raise(SessionErrors)

\* service.py:86-89 and 92-95
CreateSession ==
    /\ pc = "create_session"
    /\ \/ LET s == NewSession(APP_NAME, user_id, next_uuid + 1)
          IN  /\ next_uuid' = next_uuid + 1
              /\ session_service' = session_service \cup {s}
              /\ session' = s
              /\ created' = s.id
              /\ pc' = "run"
              /\ UNCHANGED <<ncalls, history, user_id, session_id,
                             response_parts, seen, lookup, raised, result,
                             http_response, pageVars, httpVars, tasks>>
       \/ Raise(SessionErrors)

\* service.py:98-124: the Runner is built on this call's session store and
\* the run is dispatched against session.id; the Runner appends the user's
\* message (the turn of call number ncalls) to the stored session
RunAsync ==
    /\ pc = "run"
    /\ \/ LET stored == GetSessionIn(session_service, APP_NAME, user_id,
                                     session.id)
          IN  /\ stored # Null
              /\ session_service' =
                     (session_service \ {stored})
                         \cup {[stored EXCEPT !.events = Append(@, ncalls)]}
              /\ pc' = "streaming"
              /\ UNCHANGED <<ncalls, next_uuid, history, user_id, session_id,
                             session, response_parts, seen, lookup, created,
                             raised, result, http_response, pageVars, httpVars, tasks>>
       \/ Raise(RuntimeErrors)

\* service.py:127-148: the runtime yields one more event, one of E
NextEventOf(E) ==
    /\ pc = "streaming"
    /\ Len(seen) < MaxEvents
    /\ \E event \in E :
          LET parts == AppendParts(response_parts, event)
          IN  /\ seen' = Append(seen, event)
              /\ response_parts' = parts
              /\ IF event.final
                 THEN /\ Finish(FacadeSuccess(parts, session, session_id), None)
                      /\ UNCHANGED <<ncalls, next_uuid, user_id, session_id,
                                     session_service, session, lookup, created,
                                     pageVars, httpVars, tasks>>
                 ELSE UNCHANGED <<ncalls, next_uuid, history, pc, user_id,
                                  session_id, session_service, session, lookup,
                                  created, raised, result, http_response,
                                  pageVars, httpVars, tasks>>

\* service.py:127-148 under POST /query
NextEvent == NextEventOf(EventSet)

\* StreamEnd taking a stream without a final response for a failure
StreamEndFinalOnly ==
    /\ pc = "streaming"
    /\ Finish(FacadeError(response_parts, session, session_id,
                          "NoFinalResponse"), None)
    /\ UNCHANGED <<ncalls, next_uuid, user_id, session_id, session_service,
                   session, response_parts, seen, lookup, created, pageVars,
                   httpVars, tasks>>

\* service.py:127 and 141-148: the event stream ends
StreamEnd ==
    /\ pc = "streaming"
    /\ Finish(FacadeSuccess(response_parts, session, session_id), None)
    /\ UNCHANGED <<ncalls, next_uuid, user_id, session_id, session_service,
                   session, response_parts, seen, lookup, created, pageVars, httpVars, tasks>>

\* service.py:127 and 150-156: reading the next event raises
StreamRaise ==
    /\ pc = "streaming"
    /\ Raise(RuntimeErrors)

\* most calls of process_agent_query that overlap
MaxTasks == 2

Tasks == 1..MaxTasks

\* a call that has not started: its arguments, its locals session_service
\* (service.py:74), session and response_parts (service.py:111), its
\* result, and the ghosts seen, created and raised
IdleTask ==
    [pc |-> "idle", user_id |-> None, session_id |-> None,
     session_service |-> {}, session |-> Null, response_parts |-> <<>>,
     seen |-> <<>>, created |-> None, raised |-> None, result |-> Null]

\* the facade is not running
QueryIdle ==
    /\ tasks = [c \in Tasks |-> IdleTask]
    /\ ncalls = 0
    /\ next_uuid = 0
    /\ history = <<>>
    /\ pc = "idle"
    /\ user_id = None
    /\ session_id = None
    /\ session_service = {}
    /\ session = Null
    /\ response_parts = <<>>
    /\ seen = <<>>
    /\ lookup = None
    /\ created = None
    /\ raised = None
    /\ result = Null
    /\ http_response = Null
    /\ endpoint = None
    /\ queries = <<>>
    /\ entries = <<>>
    /\ frames = <<>>

InitPage ==
    /\ QueryIdle
    /\ bucket \in {[k \in K |-> BytesOf(k)] : K \in SUBSET AllKeys}
    /\ book_name \in Slugs
    /\ page_number \in PageNumbers
    /\ gpc = "client"
    /\ available_pages = <<>>
    /\ gcs_error = None
    /\ page_result = Null
    /\ io_log = <<>>
    /\ http_answer = Null

NextPage ==
    \/ StorageClient
    \/ BlobExists
    \/ ListPages
    \/ ListBook
    \/ ListAll
    \/ Download
    \/ Fallback

SpecPage == InitPage /\ [][NextPage]_vars

\* get_book_page is not running
PageIdle ==
    /\ bucket = <<>>
    /\ book_name = None
    /\ page_number = 0
    /\ gpc = "idle"
    /\ available_pages = <<>>
    /\ gcs_error = None
    /\ page_result = Null
    /\ io_log = <<>>
    /\ http_answer = Null

Init == QueryIdle /\ PageIdle

Next ==
    \/ Request
    \/ GetSession
    \/ CreateSession
    \/ RunAsync
    \/ NextEvent
    \/ StreamEnd
    \/ StreamRaise

Spec == Init /\ [][Next]_vars

(***************************************************************************)
(* The other routes of api.py over the same facade: POST /ask              *)
(* (api.py:170-191), POST /query/batch (api.py:194-226) and                *)
(* POST /query/stream (api.py:234-270).  One request per behaviour.        *)
(***************************************************************************)
\* most QueryRequests in the body of one POST /query/batch
MaxBatch == 2

\* session_id values of these requests
HttpSids == {None, StaleId}

\* events of the runtime under these routes
HttpEventSet == [parts : {<<>>, <<"ab">>}, final : BOOLEAN]

\* the QueryRequests of a batch (api.py:39-52)
BatchInputs == [user_id : Users, session_id : HttpSids]

\* api.py:180-183 and service.py:182: POST /ask calls ask_agent, which
\* calls the facade with the default user_id
AskAgentSimple ==
    /\ pc = "idle"
    /\ \E sid \in HttpSids : StartCall("default_user", sid)
    /\ endpoint' = "/ask"
    /\ UNCHANGED <<queries, entries, frames>>

\* api.py:245-252: generate() of POST /query/stream calls the facade
StreamQuery ==
    /\ pc = "idle"
    /\ \E u \in Users : \E sid \in HttpSids : StartCall(u, sid)
    /\ endpoint' = "/query/stream"
    /\ UNCHANGED <<queries, entries, frames>>

\* api.py:255: the facade has returned, the first frame is yielded
YieldResult ==
    /\ pc = "yield_result"
    /\ frames' = Append(frames, ResultFrame(result))
    /\ pc' = "yield_done"
    /\ UNCHANGED <<ncalls, next_uuid, history, user_id, session_id,
                   session_service, session, response_parts, seen, lookup,
                   created, raised, result, http_response, pageVars,
                   endpoint, queries, entries, tasks>>

\* api.py:256: the second frame is yielded and generate() ends
YieldDone ==
    /\ pc = "yield_done"
    /\ frames' = Append(frames, DoneFrame)
    /\ pc' = "done"
    /\ UNCHANGED <<ncalls, next_uuid, history, user_id, session_id,
                   session_service, session, response_parts, seen, lookup,
                   created, raised, result, http_response, pageVars,
                   endpoint, queries, entries, tasks>>

\* api.py:202-209: POST /query/batch starts its loop; the facade is called
\* for the first query, or the empty list is returned at once
BatchQuery ==
    /\ pc = "idle"
    /\ \E n \in 0..MaxBatch : \E qs \in [1..n -> BatchInputs] :
          /\ queries' = qs
          /\ IF n = 0
             THEN /\ pc' = "done"
                  /\ http_response' = [code |-> 200, body |-> <<>>]
                  /\ UNCHANGED <<ncalls, next_uuid, history, user_id,
                                 session_id, session_service, session,
                                 response_parts, seen, lookup, created,
                                 raised, result, pageVars, tasks>>
             ELSE StartCall(qs[1].user_id, qs[1].session_id)
    /\ endpoint' = "/query/batch"
    /\ entries' = <<>>
    /\ UNCHANGED frames

\* BatchAppend returning the list at the first failed query
BatchAppendAbort ==
    /\ pc = "append"
    /\ LET i == Len(entries) + 1
           es == Append(entries, BatchEntry(result, queries[i].session_id))
       IN  /\ entries' = es
           /\ IF i < Len(queries) /\ result.status = "success"
              THEN StartCall(queries[i + 1].user_id, queries[i + 1].session_id)
              ELSE /\ pc' = "done"
                   /\ http_response' = [code |-> 200, body |-> es]
                   /\ UNCHANGED <<ncalls, next_uuid, history, user_id,
                                  session_id, session_service, session,
                                  response_parts, seen, lookup, created,
                                  raised, result, pageVars, tasks>>
    /\ UNCHANGED <<endpoint, queries, frames>>

\* api.py:204-226: the entry of the query just run is appended, then the
\* loop calls the facade for the next query or the list is returned
BatchAppend ==
    /\ pc = "append"
    /\ LET i == Len(entries) + 1
           es == Append(entries, BatchEntry(result, queries[i].session_id))
       IN  /\ entries' = es
           /\ IF i < Len(queries)
              THEN StartCall(queries[i + 1].user_id, queries[i + 1].session_id)
              ELSE /\ pc' = "done"
                   /\ http_response' = [code |-> 200, body |-> es]
                   /\ UNCHANGED <<ncalls, next_uuid, history, user_id,
                                  session_id, session_service, session,
                                  response_parts, seen, lookup, created,
                                  raised, result, pageVars, tasks>>
    /\ UNCHANGED <<endpoint, queries, frames>>

\* service.py:127-148 under these routes
HttpNextEvent == NextEventOf(HttpEventSet)

NextHttp ==
    \/ AskAgentSimple
    \/ StreamQuery
    \/ BatchQuery
    \/ GetSession
    \/ CreateSession
    \/ RunAsync
    \/ HttpNextEvent
    \/ StreamEnd
    \/ StreamRaise
    \/ YieldResult
    \/ YieldDone
    \/ BatchAppend

SpecHttp == Init /\ [][NextHttp]_vars

(***************************************************************************)
(* Overlapping calls of process_agent_query (service.py:28-156), as the    *)
(* event loop runs them for concurrent requests (api.py:133-167): a step   *)
(* of one call runs from one await to the next.                            *)
(***************************************************************************)
\* arguments of the overlapping calls; Uuid(1) is the id of a session some
\* call creates
ConcUsers == {"default_user"}

ConcSids == {None, Uuid(1)}

\* the text of the fragments the runtime yields to call c
TaskText(c) == "t" \o NatToStr(c)

\* events of the runtime for call c
ConcEventSet(c) == [parts : {<<TaskText(c)>>}, final : BOOLEAN]

\* uuid4 values drawn so far: one per session created
Drawn == Cardinality({c \in Tasks : tasks[c].created # None})

\* service.py:150-156 in call c
ConcRaise(c, errors) ==
    \E e \in errors :
        /\ tasks' = [tasks EXCEPT
                         ![c].pc = "done",
                         ![c].raised = e,
                         ![c].result = FacadeError(tasks[c].response_parts,
                                                   tasks[c].session,
                                                   tasks[c].session_id, e)]
        /\ UNCHANGED <<pageVars, queryVars, httpVars>>

\* service.py:72-77: a call starts
ConcStart ==
    \E c \in Tasks : \E u \in ConcUsers : \E sid \in ConcSids :
        /\ tasks[c].pc = "idle"
        /\ tasks' = [tasks EXCEPT
                         ![c].user_id = u,
                         ![c].session_id = sid,
                         ![c].session_service = {},
                         ![c].pc = IF Truthy(sid) THEN "get_session"
                                                  ELSE "create_session"]
        /\ UNCHANGED <<pageVars, queryVars, httpVars>>

\* service.py:79-84
ConcGetSession ==
    \E c \in Tasks :
        /\ tasks[c].pc = "get_session"
        /\ \/ LET s == GetSessionIn(tasks[c].session_service, APP_NAME,
                                    tasks[c].user_id, tasks[c].session_id)
              IN  /\ tasks' = [tasks EXCEPT
                                   ![c].session = s,
                                   ![c].pc = IF s = Null THEN "create_session"
                                                         ELSE "run"]
                  /\ UNCHANGED <<pageVars, queryVars, httpVars>>
           \/ ConcRaise(c, SessionErrors)

\* service.py:86-89 and 92-95
ConcCreateSession ==
    \E c \in Tasks :
        /\ tasks[c].pc = "create_session"
        /\ \/ LET s == NewSession(APP_NAME, tasks[c].user_id, Drawn + 1)
              IN  /\ tasks' = [tasks EXCEPT
                                   ![c].session_service = @ \cup {s},
                                   ![c].session = s,
                                   ![c].created = s.id,
                                   ![c].pc = "run"]
                  /\ UNCHANGED <<pageVars, queryVars, httpVars>>
           \/ ConcRaise(c, SessionErrors)

\* service.py:98-124: the Runner is built on the call's own session store,
\* response_parts starts empty, and the run is dispatched; the Runner
\* appends the user's message (the turn of call c) to the stored session
ConcRunAsync ==
    \E c \in Tasks :
        /\ tasks[c].pc = "run"
        /\ \/ LET stored == GetSessionIn(tasks[c].session_service, APP_NAME,
                                         tasks[c].user_id, tasks[c].session.id)
              IN  /\ stored # Null
                  /\ tasks' = [tasks EXCEPT
                                   ![c].session_service =
                                       (@ \ {stored}) \cup
                                       {[stored EXCEPT
                                            !.events = Append(@, c)]},
                                   ![c].response_parts = <<>>,
                                   ![c].pc = "streaming"]
                  /\ UNCHANGED <<pageVars, queryVars, httpVars>>
           \/ ConcRaise(c, RuntimeErrors)

\* ConcNextEvent with one response buffer for all calls
ConcNextEventShared ==
    \E c \in Tasks :
        /\ tasks[c].pc = "streaming"
        /\ Len(tasks[c].seen) < MaxEvents
        /\ \E event \in ConcEventSet(c) :
              LET shared == [o \in Tasks |->
                                [tasks[o] EXCEPT !.response_parts =
                                                AppendParts(@, event)]]
              IN  tasks' = [shared EXCEPT
                               ![c].seen = Append(@, event),
                               ![c].pc = IF event.final THEN "done" ELSE @,
                               ![c].result =
                                   IF event.final
                                   THEN FacadeSuccess(shared[c].response_parts,
                                                      tasks[c].session,
                                                      tasks[c].session_id)
                                   ELSE @]
        /\ UNCHANGED <<pageVars, queryVars, httpVars>>

\* service.py:127-148: the runtime yields one more event to a call
ConcNextEvent ==
    \E c \in Tasks :
        /\ tasks[c].pc = "streaming"
        /\ Len(tasks[c].seen) < MaxEvents
        /\ \E event \in ConcEventSet(c) :
              LET parts == AppendParts(tasks[c].response_parts, event)
              IN  tasks' = [tasks EXCEPT
                               ![c].seen = Append(@, event),
                               ![c].response_parts = parts,
                               ![c].pc = IF event.final THEN "done" ELSE @,
                               ![c].result =
                                   IF event.final
                                   THEN FacadeSuccess(parts, tasks[c].session,
                                                      tasks[c].session_id)
                                   ELSE @]
        /\ UNCHANGED <<pageVars, queryVars, httpVars>>

\* service.py:127 and 141-148: the event stream of a call ends
ConcStreamEnd ==
    \E c \in Tasks :
        /\ tasks[c].pc = "streaming"
        /\ tasks' = [tasks EXCEPT
                         ![c].pc = "done",
                         ![c].result = FacadeSuccess(tasks[c].response_parts,
                                                     tasks[c].session,
                                                     tasks[c].session_id)]
        /\ UNCHANGED <<pageVars, queryVars, httpVars>>

\* service.py:127 and 150-156: reading the next event of a call raises
ConcStreamRaise ==
    \E c \in Tasks :
        /\ tasks[c].pc = "streaming"
        /\ ConcRaise(c, RuntimeErrors)

NextConc ==
    \/ ConcStart
    \/ ConcGetSession
    \/ ConcCreateSession
    \/ ConcRunAsync
    \/ ConcNextEvent
    \/ ConcStreamEnd
    \/ ConcStreamRaise

SpecConc == Init /\ [][NextConc]_vars

(***************************************************************************)
(* Properties of process_agent_query and POST /query, checked under Spec.  *)
(***************************************************************************)
\* the calls that have returned
Finished == 1..Len(history)

\* C1: session continuity across calls.  If a call made without a
\* session_id succeeds and returns session id S, a later successful call
\* of the same user with session_id = S returns session_id = S and runs
\* against the session that already holds the first call's turn.
C1_SessionContinuity ==
    \A i, j \in Finished :
        ( /\ i < j
          /\ history[i].in_sid = None
          /\ history[i].status = "success"
          /\ history[j].user_id = history[i].user_id
          /\ history[j].in_sid = history[i].out_sid
          /\ history[j].status = "success" )
        => /\ history[j].out_sid = history[i].out_sid
           /\ i \in Range(history[j].context)

\* the session step of the running call is over and did not raise
SessionResolved ==
    \/ pc \in {"run", "streaming"}
    \/ pc = "done" /\ raised \notin SessionErrors

\* C2: lazy session creation.  When session_id is omitted (None or empty)
\* no lookup is made and a new session is created; when session_id is given
\* and the lookup finds nothing, the miss is no error and a new session is
\* created; in both cases the call runs on that new session and a success
\* result carries the new session's id, not the input id.
C2_LazySessionCreation ==
    /\ (pc # "idle" /\ ~Truthy(session_id)) => lookup = None
    /\ (lookup = "miss" /\ raised = None) => pc # "done" \/ result.status = "success"
    /\ (SessionResolved /\ (~Truthy(session_id) \/ lookup = "miss"))
           => /\ created # None
              /\ created # session_id
              /\ \A i \in Finished : i < ncalls => history[i].session # created
              /\ session.id = created
              /\ \E s \in session_service : s.id = created
              /\ (pc = "done" /\ result.status = "success")
                     => result.session_id = created

\* C2 happens: a call that passed an unknown session_id succeeded
C2_Witness ==
    /\ pc = "done"
    /\ lookup = "miss"
    /\ session_id = StaleId
    /\ result.status = "success"

\* C3: process_agent_query never raises.  Whenever the session lookup, the
\* session creation, the dispatch or the reading of an event raises, the
\* call returns response "", the caller's own session_id (None when it was
\* omitted), status "error" and the exception's message, whatever session
\* was created and whatever text was collected before.
C3_NeverRaises ==
    /\ (raised # None) =>
           /\ pc = "done"
           /\ result = [response |-> "", session_id |-> session_id,
                        status |-> "error", error |-> raised]
    /\ (pc = "done") => result # Null
    /\ (pc \notin {"idle", "done"}) => ENABLED Next

\* C3 happens: reading an event raised after a session had been created and
\* text had been collected
C3_Witness ==
    /\ pc = "done"
    /\ raised \in RuntimeErrors
    /\ created # None
    /\ Len(response_parts) > 0
    /\ result.status = "error"

RECURSIVE TextOfParts(_)
\* the texts of the parts of one event, joined
TextOfParts(parts) ==
    IF Len(parts) = 0 THEN "" ELSE Head(parts) \o TextOfParts(Tail(parts))

RECURSIVE TextOfEvents(_)
\* the texts of all parts of a sequence of events, joined in arrival order
TextOfEvents(events) ==
    IF Len(events) = 0 THEN ""
    ELSE TextOfParts(Head(events).parts) \o TextOfEvents(Tail(events))

\* C4: on normal completion the result is {response, session.id, "success",
\* None}, where response is the text of every event read, in arrival order,
\* and no event is read after the first event flagged as final.
C4_ResponseIsConcatenation ==
    /\ \A k \in 1..(Len(seen) - 1) : ~seen[k].final
    /\ (Len(seen) > 0 /\ seen[Len(seen)].final) => pc = "done"
    /\ (pc = "done" /\ raised = None) =>
           result = [response |-> TextOfEvents(seen), session_id |-> session.id,
                     status |-> "success", error |-> None]

\* C4 happens: a run of two events, the second final, both carrying text
C4_Witness ==
    /\ pc = "done"
    /\ result.status = "success"
    /\ Len(seen) = 2
    /\ seen[2].final
    /\ seen[1].parts = <<"", "c">>
    /\ seen[2].parts = <<"c", "ab">>
    /\ result.response = "ccab"

\* C5: a session or runtime failure inside the facade reaches the caller of
\* POST /query as a QueryResponse body with status "error" and the error
\* message, never as HTTP 500, also when the request has no session_id.
C5_FailureIsErrorBody ==
    (pc = "done" /\ raised # None) =>
        /\ http_response.code = 200
        /\ http_response.body.status = "error"
        /\ http_response.body.error = raised

(***************************************************************************)
(* Properties of get_book_page, checked under SpecPage.                    *)
(***************************************************************************)
\* the stored object names
Names == DOMAIN bucket

\* the key of page n of a book in the store's layout
PageKey(slug, n) == slug \o "/page_" \o IntToStr(n) \o ".png"

\* the N of an object named "{slug}/page_<N>.png", N decimal digits; <<>>
\* for any other name
PageOfName(slug, k) ==
    LET pre == slug \o "/page_"
        mid == SubSeq(k, Len(pre) + 1, Len(k) - 4)
    IN  IF /\ StartsWith(k, pre)
           /\ EndsWith(k, ".png")
           /\ Len(mid) > 0
           /\ \A i \in 1..Len(mid) : IsDigit(CharAt(mid, i))
        THEN <<DigitsVal(mid, 1, 0)>>
        ELSE <<>>

\* the page numbers stored for a book
StoredPages(slug) ==
    {PageOfName(slug, k)[1] : k \in {n \in Names : PageOfName(slug, n) # <<>>}}

\* the top-level prefixes of the store: the segments before a first "/"
TopLevelPrefixes ==
    {SubSeq(k, 1, Find(k, "/", 1) - 1) : k \in {n \in Names : Find(n, "/", 1) > 0}}

\* get_book_page returned and no call to the primary store raised
ReturnedPrimary == gpc = "done" /\ gcs_error = None

\* the BookNotFound result for the requested book
ExpectedBookNotFound ==
    [status |-> "error",
     message |-> "Book '" \o book_name \o "' not found. Available books: "
                     \o Join(", ", SortedStrs(TopLevelPrefixes)),
     book_name |-> book_name,
     page_number |-> page_number]

ExpectedPageNotFound(P) ==
    [status |-> "error",
     message |-> "Page " \o IntToStr(page_number) \o " not found in book '"
                     \o book_name \o "'. Available pages: "
                     \o IntToStr(Min(P)) \o "-" \o IntToStr(Max(P)),
     book_name |-> book_name,
     page_number |-> page_number]

\* C7: for a book whose stored page numbers are a non-empty set P and a
\* page number n outside P (beyond the range or in a gap), the result is
\* PageNotFound reporting n and the range min(P)-max(P).
C7_MissingPageIsPageNotFound ==
    ( /\ ReturnedPrimary
      /\ StoredPages(book_name) # {}
      /\ page_number \notin StoredPages(book_name) )
        => page_result = ExpectedPageNotFound(StoredPages(book_name))

\* the success result for the requested page with the given bytes
ExpectedSuccess(bytes) ==
    [status |-> "success",
     message |-> "Successfully retrieved page " \o IntToStr(page_number)
                     \o " from book '" \o book_name \o "' (GCS)",
     image |-> [data |-> bytes, mime_type |-> "image/png"],
     book_name |-> book_name,
     page_number |-> page_number]

\* the page numbers n of a book whose object "{slug}/page_{n}.png" is stored
ExactPages(slug) ==
    {n \in StoredPages(slug) : PageKey(slug, n) \in Names}

\* C8 as stated: for every page number within the range of the pages
\* stored for the book, the result is success with the bytes stored under
\* "{slug}/page_{n}.png".
C8_InRangeRoundTrip ==
    ( /\ ReturnedPrimary
      /\ ExactPages(book_name) # {}
      /\ Min(ExactPages(book_name)) <= page_number
      /\ page_number <= Max(ExactPages(book_name)) )
        => /\ PageKey(book_name, page_number) \in Names
           /\ page_result = ExpectedSuccess(bucket[PageKey(book_name, page_number)])

\* C8 amended: for every page whose object "{slug}/page_{n}.png" is stored,
\* the result is success with exactly the stored bytes, book_name = slug
\* and page_number = n (when a store call raises, the same holds of every
\* success obtained through the public URL).
C8_StoredPageRoundTrip ==
    (gpc = "done" /\ PageKey(book_name, page_number) \in Names)
        => /\ gcs_error = None
               => page_result = ExpectedSuccess(bucket[PageKey(book_name, page_number)])
           /\ page_result.status = "success"
               => page_result = ExpectedSuccess(bucket[PageKey(book_name, page_number)])

\* C8 happens: a stored page next to a gap is downloaded
C8_Witness ==
    /\ ReturnedPrimary
    /\ book_name = "a"
    /\ page_number = 3
    /\ {"a/page_1.png", "a/page_3.png", "b/page_2.png"} \subseteq Names
    /\ page_result.status = "success"
    /\ io_log = <<"client", "exists", "download">>

\* C9: get_book_page never raises.  Whatever the store and the public URL
\* do, exceptions included, it returns a result with status "success" or
\* "error", the book_name and page_number it was given, and an image
\* exactly when the status is "success".
C9_AlwaysStructuredResult ==
    /\ (gpc = "done") =>
           /\ page_result # Null
           /\ {"status", "message", "book_name", "page_number"}
                  \subseteq DOMAIN page_result
           /\ page_result.status \in {"success", "error"}
           /\ page_result.book_name = book_name
           /\ page_result.page_number = page_number
           /\ ("image" \in DOMAIN page_result) <=> (page_result.status = "success")
    /\ (gpc \notin {"idle", "done"}) =>
           /\ page_result = Null
           /\ gpc \in {"client", "exists", "list_pages", "list_book",
                       "list_all", "download", "fallback"}

\* C9 happens: the store raised and then the HTTP request raised
C9_Witness ==
    /\ gpc = "done"
    /\ gcs_error \in GcsErrors
    /\ http_answer \in [exception : HttpErrors]
    /\ page_result.status = "error"

\* C10: when a call to the primary store raises, the same key is fetched
\* through the public URL; a 200 answer gives success with its content;
\* any other outcome (another status, or an exception of the HTTP request)
\* gives a storage error whose message embeds the primary store's error.
C10_FallbackKeepsPrimaryError ==
    (gpc = "done" /\ gcs_error # None) =>
        /\ io_log[Len(io_log)] =
               "https://storage.googleapis.com/bakaloria-ai-assistance-books/"
                   \o PageKey(book_name, page_number)
        /\ IF "status_code" \in DOMAIN http_answer /\ http_answer.status_code = 200
           THEN page_result = ExpectedSuccess(http_answer.content)
           ELSE /\ page_result.status = "error"
                /\ StartsWith(page_result.message, "Error reading image file: ")
                /\ Contains(page_result.message, gcs_error)


\* the state of the per-query state machine the running call is in
Phase ==
    CASE pc \in {"get_session", "create_session"} -> "Idle"
      [] pc = "run" -> "SessionResolved"
      [] pc = "streaming" /\ seen = <<>> -> "Dispatched"
      [] pc = "streaming" /\ seen # <<>> -> "Streaming"
      [] pc = "done" /\ result.status = "success" -> "Completed"
      [] pc = "done" /\ result.status # "success" -> "Failed"
      [] OTHER -> "NoCall"

NonTerminal == {"Idle", "SessionResolved", "Dispatched", "Streaming"}

\* the steps of one query; the read that ends the stream, or that yields
\* the final response as the first event, begins and ends the streaming
PhaseSteps ==
    {<<"Idle", "SessionResolved">>,
     <<"SessionResolved", "Dispatched">>,
     <<"Dispatched", "Streaming">>,
     <<"Dispatched", "Completed">>,
     <<"Streaming", "Completed">>}
        \cup {<<p, "Failed">> : p \in NonTerminal}

\* the steps of process_agent_query itself
FacadeStep ==
    GetSession \/ CreateSession \/ RunAsync \/ NextEvent \/ StreamEnd
        \/ StreamRaise

C16_StateOk ==
    /\ Phase \in {"SessionResolved", "Dispatched", "Streaming"} =>
           session # Null
    /\ seen # <<>> =>
           /\ Phase \in {"Streaming", "Completed", "Failed"}
           /\ \E s \in session_service :
                 s.id = session.id /\ ncalls \in Range(s.events)
    /\ result # Null <=> pc = "done"
    /\ pc = "done" =>
           /\ result.status \in {"success", "error"}
           /\ result.status = "error" <=> raised # None
           /\ ~ENABLED FacadeStep
    /\ Phase \in NonTerminal =>
           ENABLED ((GetSession \/ CreateSession \/ RunAsync \/ StreamRaise)
                        /\ pc' = "done" /\ result'.status = "error")

C16_StepOk ==
    \/ /\ Phase \in NonTerminal
       /\ Phase' = Phase \/ <<Phase, Phase'>> \in PhaseSteps
       /\ ncalls' = ncalls
    \/ /\ Phase \notin NonTerminal
       /\ Phase' = "Idle"
       /\ ncalls' = ncalls + 1

\* C16: every call of process_agent_query moves through Idle,
\* SessionResolved, Dispatched and Streaming in that order (no dispatch
\* before a session is resolved or created, no event consumed before the
\* dispatch), ends in exactly one of Completed (status success) or Failed
\* (status error), can fail from every non-terminal state, and takes no
\* further step once it is terminal: the next step is another call.
C16_QueryStateMachine == []C16_StateOk /\ [][C16_StepOk]_vars

\* calls have ended in Failed from the dispatch and in Completed
C16_Witness ==
    /\ Len(history) = 2
    /\ history[1].status = "error"
    /\ history[1].session # None
    /\ Phase = "Completed"
    /\ seen # <<>>

\* no event the call has read was flagged as the final response
NoFinalSeen == \A i \in 1..Len(seen) : ~seen[i].final

\* C18: when the event stream ends without raising and without an event
\* flagged as the final response, process_agent_query returns status
\* "success" with the concatenation of the fragments seen, which may be
\* empty, and session_id = session.id.
C18_EndWithoutFinalSucceeds ==
    (pc = "done" /\ raised = None /\ NoFinalSeen) =>
        /\ result.status = "success"
        /\ result.error = None
        /\ result.response = TextOfEvents(seen)
        /\ result.session_id = session.id

\* a call whose one event had neither text nor the final flag has
\* succeeded with the empty response
C18_Witness ==
    /\ pc = "done"
    /\ Len(seen) = 1
    /\ NoFinalSeen
    /\ result.status = "success"
    /\ result.response = ""
    /\ result.session_id = Uuid(next_uuid)

(***************************************************************************)
(* Further properties of get_book_page, checked under SpecPage.            *)
(***************************************************************************)
\* the return statement an error result came from: tools.py:145 after a
\* store call raised, tools.py:85 after the listing of the whole bucket,
\* tools.py:95 otherwise
ErrorKind ==
    IF gcs_error # None THEN "StorageError"
    ELSE IF io_log[Len(io_log)] = "list_all" THEN "BookNotFound"
    ELSE "PageNotFound"

\* the text each kind of error message starts with
KindPrefix ==
    [BookNotFound |-> "Book '",
     PageNotFound |-> "Page ",
     StorageError |-> "Error reading image file: "]

\* C15: every error result of get_book_page carries a non-empty message,
\* and that message starts with the prefix of its own kind (BookNotFound,
\* PageNotFound, StorageError) and with the prefix of no other kind, for
\* every book_name, page_number and store content.
C15_ErrorKindsDistinguishable ==
    (gpc = "done" /\ page_result.status = "error") =>
        /\ page_result.message # ""
        /\ {k \in DOMAIN KindPrefix :
                StartsWith(page_result.message, KindPrefix[k])} = {ErrorKind}

\* PageNotFound has been returned for a book whose slug holds "page_"
C15_Witness ==
    /\ gpc = "done"
    /\ page_result.status = "error"
    /\ book_name = "page_x"
    /\ ErrorKind = "PageNotFound"

\* the listing of tools.py:65-73 ran, without raising
PagesListed ==
    /\ gcs_error = None
    /\ gpc \in {"list_book", "list_all", "done"}
    /\ "list_pages" \in Range(io_log)

\* C17: when the requested page object is absent, the page numbers
\* get_book_page collects for its min-max report are exactly the N of the
\* stored objects named "{book_slug}/page_N.png": names whose trailing part
\* is no integer are ignored, no other name contributes, and every object
\* of that shape contributes its N, for every slug, those that contain
\* "page_" included.
C17_AvailablePagesExact ==
    PagesListed =>
        {available_pages[i] : i \in 1..Len(available_pages)}
            = StoredPages(book_name)

\* the positions of io_log that are HTTP requests
UrlRequests == {i \in 1..Len(io_log) : StartsWith(io_log[i], "https://")}

\* C20: the public URL is requested only after a call to the primary store
\* has raised, and at most once; when the existence check reports the
\* object absent and the listings complete without raising, the result is
\* BookNotFound or PageNotFound with no request to the public URL and no
\* download; a success result comes only after a primary download that did
\* not raise or after a fallback answer with status 200.
C20_FallbackOnlyAfterRaise ==
    /\ UrlRequests # {} =>
           /\ gcs_error # None
           /\ UrlRequests = {Len(io_log)}
           /\ Len(io_log) >= 2
    /\ http_answer # Null <=> UrlRequests # {}
    /\ (gpc = "done" /\ gcs_error = None
           /\ PageKey(book_name, page_number) \notin Names) =>
           /\ page_result.status = "error"
           /\ \/ StartsWith(page_result.message, "Book '")
              \/ StartsWith(page_result.message, "Page ")
           /\ UrlRequests = {}
           /\ "download" \notin Range(io_log)
    /\ (gpc = "done" /\ page_result.status = "success") =>
           \/ /\ gcs_error = None
              /\ io_log[Len(io_log)] = "download"
           \/ /\ gcs_error # None
              /\ "status_code" \in DOMAIN http_answer
              /\ http_answer.status_code = 200

\* BookNotFound has been returned after the three listings, and nothing
\* else was asked
C20_Witness ==
    /\ gpc = "done"
    /\ page_result.status = "error"
    /\ io_log = <<"client", "exists", "list_pages", "list_book", "list_all">>
    /\ http_answer = Null

(***************************************************************************)
(* Properties of POST /query/batch, POST /query/stream and POST /ask,      *)
(* checked under SpecHttp.                                                 *)
(***************************************************************************)
\* C11: POST /query/batch runs the facade for its queries one at a time in
\* input order (call i + 1 starts only when entry i is appended, and call i
\* carries the user_id and session_id of query i), entry i has status
\* "error" exactly when the facade failed for query i and "success"
\* otherwise, and the answer holds exactly one entry per query, whatever
\* failed before.
C11_BatchSequentialPerItem ==
    endpoint = "/query/batch" =>
        /\ Len(entries) <= Len(queries)
        /\ ncalls \in {Len(entries), Len(entries) + 1}
        /\ ncalls <= Len(queries)
        /\ Len(history) \in {Len(entries), Len(entries) + 1}
        /\ \A i \in 1..Len(history) :
              /\ history[i].user_id = queries[i].user_id
              /\ history[i].in_sid = queries[i].session_id
        /\ \A i \in 1..Len(entries) :
              /\ entries[i].status \in {"success", "error"}
              /\ entries[i].status = "error" <=> history[i].raised # None
        /\ pc = "done" =>
              /\ Len(entries) = Len(queries)
              /\ http_response = [code |-> 200, body |-> entries]

\* a batch of two queries has answered: the first failed, the second did not
C11_Witness ==
    /\ endpoint = "/query/batch"
    /\ pc = "done"
    /\ Len(queries) = 2
    /\ Len(http_response.body) = 2
    /\ history[1].raised # None
    /\ http_response.body[1].status = "error"
    /\ http_response.body[2].status = "success"


\* the JSON text of a facade result, member by member
JsonOfResult(r) ==
    "{\"response\": \"" \o r.response \o "\", \"session_id\": "
        \o (IF r.session_id = None THEN "null"
                ELSE "\"" \o r.session_id \o "\"")
        \o ", \"status\": \"" \o r.status \o "\", \"error\": "
        \o (IF r.error = None THEN "null" ELSE "\"" \o r.error \o "\"")
        \o "}"

\* C12: POST /query/stream emits, for every request, whether the facade
\* succeeded or failed, exactly two frames in this order: a data frame
\* with the JSON encoding of the facade's whole result, then the data frame
\* "[DONE]"; no frame is emitted before the facade has returned.
C12_StreamTwoFrames ==
    endpoint = "/query/stream" =>
        /\ Len(frames) <= 2
        /\ frames # <<>> =>
              /\ result # Null
              /\ frames[1] = "data: " \o JsonOfResult(result) \o "\n\n"
        /\ Len(frames) = 2 => frames[2] = "data: [DONE]\n\n"
        /\ pc = "done" => Len(frames) = 2
        /\ pc # "done" => Len(frames) < 2

\* a stream request whose facade call failed has emitted both frames
C12_Witness ==
    /\ endpoint = "/query/stream"
    /\ pc = "done"
    /\ raised # None
    /\ result.session_id = None
    /\ Len(frames) = 2


\* C13 (as stated): the response text of POST /ask equals the `response`
\* field POST /query returns for the same query and session_id with the
\* default user_id, under the same behaviour of the session store and the
\* runtime (so for the same facade result), also when the facade fails;
\* compared wherever POST /query returns a QueryResponse.
C13_AskEqualsQuery ==
    (endpoint = "/ask" /\ pc = "done" /\ QueryAnswer(result).code = 200) =>
        /\ user_id = "default_user"
        /\ http_response.body.response = QueryAnswer(result).body.response

\* C13 (amended): POST /ask calls the facade with the default user_id and
\* answers 200 with one field; when the facade succeeds that field equals
\* the `response` field POST /query returns for the same facade result, and
\* when the facade fails it is "Error: " followed by the error message,
\* while the facade's own response is empty.
C13_AskProjectsOnSuccess ==
    (endpoint = "/ask" /\ pc = "done") =>
        /\ user_id = "default_user"
        /\ http_response.code = 200
        /\ DOMAIN http_response.body = {"response"}
        /\ raised = None =>
              /\ QueryAnswer(result).code = 200
              /\ http_response.body.response = QueryAnswer(result).body.response
              /\ http_response.body.response = TextOfEvents(seen)
        /\ raised # None =>
              /\ http_response.body.response = "Error: " \o raised
              /\ result.response = ""

\* POST /ask has answered a call that collected text
C13_Witness ==
    /\ endpoint = "/ask"
    /\ pc = "done"
    /\ raised = None
    /\ http_response.body.response = "abab"


(***************************************************************************)
(* Properties of overlapping calls of process_agent_query, checked under   *)
(* SpecConc.                                                               *)
(***************************************************************************)
\* what a call with these arguments returns when it runs alone and the
\* session store and the runtime behave towards it as recorded in t
SequentialResult(t) ==
    IF t.raised # None
    THEN [response |-> "", session_id |-> t.session_id,
          status |-> "error", error |-> t.raised]
    ELSE [response |-> TextOfEvents(t.seen), session_id |-> t.created,
          status |-> "success", error |-> None]

====
